---------------------------- MODULE Spec2Model ----------------------------
(***************************************************************************)
(* Model of the Mern-Movie backend: the in-memory batch insert queue       *)
(* (MovieQueue), the recommendation scoring functions and the feed         *)
(* handlers that call them, the handlers that read and write the movie,    *)
(* user and interaction stores, and the movie router.                      *)
(*                                                                         *)
(* JavaScript runs one task at a time: every action below is one           *)
(* synchronous run of code, from a call or a resumed await up to the next  *)
(* await or return.                                                        *)
(***************************************************************************)
EXTENDS Integers, Sequences, FiniteSets

(***************************************************************************)
(* Bounds of the model.                                                    *)
(***************************************************************************)
\* items ever enqueued in one behaviour
MaxItems == 3
\* items ever enqueued in one behaviour of the always-succeeding queue
MaxSucceeding == 11
\* slots for processQueue passes that are active at once
MaxPasses == 2

\* this.maxRetries, set by the constructor
maxRetries == 3
\* this.batchSize, set by the constructor
initialBatchSize == 10

Items == 1..(IF MaxItems >= MaxSucceeding THEN MaxItems ELSE MaxSucceeding)
Passes == 1..MaxPasses

\* How an item's insertFunction behaves: its promise always fulfils, always
\* rejects, or does either from one invocation to the next.
InsertKinds == {"succeeds", "fails", "either"}

VARIABLES
    queue,        \* this.queue: sequence of queue items [id, fn, retries]
    processing,   \* this.processing
    batchSize,    \* this.batchSize
    timers,       \* pending setTimeout(() => this.processQueue(), 5000) callbacks
    pc,           \* per pass slot: "none", "join" (await Promise.allSettled), "delay" (await 100ms)
    batch,        \* per pass slot: ids of the items of the batch being awaited
    settled,      \* per pass slot: results {success, item} of the batch's settled promises
    inflight,     \* insert operations invoked and not yet settled: [item, pass]
    nextId,       \* identity of the next item object enqueue creates
    invoked,      \* per item: how many times its insertFunction was invoked
    dropped,      \* items logged "Failed to process queue item after N retries"
    cleared,      \* items that were in this.queue when clear() discarded it
    clearState,   \* whether clear() was called with no enqueue since, and the
                  \* items that were in flight at that clear()
    lastOp,       \* the operation that produced the current state
    movieStore,        \* the Movie collection, in the order Movie.find() returns it
    userHistory,       \* the authenticated user's interactionHistory
    interactionStore,  \* the UserInteraction collection: per movie id, how many
                       \* documents are at most 7 days old and how many 7 to 30
    response,          \* the last response of a feed handler
    requests,          \* the requests the store handlers have received, in
                       \* order of arrival, each with the await it stands at
    interactionLog,    \* the UserInteraction documents the handlers created
    routed             \* the last request the movie router dispatched

queueVars == <<queue, processing, batchSize, timers, pc, batch, settled,
               inflight, nextId, invoked, dropped, cleared, clearState,
               lastOp>>

apiVars == <<movieStore, userHistory, interactionStore, response>>

reqVars == <<requests, interactionLog, routed>>

vars == <<queueVars, apiVars, reqVars>>

MinOf(a, b) == IF a <= b THEN a ELSE b

QueueIds(q) == {q[k].id : k \in 1..Len(q)}

InflightIds == {x.item.id : x \in inflight}

ActivePasses == {p \in Passes : pc[p] # "none"}

(***************************************************************************)
(* constructor                                                             *)
(***************************************************************************)
QueueInit ==
    /\ queue = <<>>
    /\ processing = FALSE
    /\ batchSize = initialBatchSize
    /\ timers = 0
    /\ pc = [p \in Passes |-> "none"]
    /\ batch = [p \in Passes |-> {}]
    /\ settled = [p \in Passes |-> {}]
    /\ inflight = {}
    /\ nextId = 1
    /\ invoked = [i \in Items |-> 0]
    /\ dropped = {}
    /\ cleared = {}
    /\ clearState = [active |-> FALSE, inflight |-> {}]
    /\ lastOp = "init"

(***************************************************************************)
(* getStatus(): a snapshot of the three fields.                            *)
(***************************************************************************)
getStatus ==
    [queueLength |-> Len(queue), processing |-> processing, batchSize |-> batchSize]

(***************************************************************************)
(* processQueue, first statement: if (this.processing || this.queue.length *)
(* === 0) return;                                                          *)
(***************************************************************************)
\* the same test without the flag
ReturnsEarlyIgnoringFlag(q) == Len(q) = 0

ReturnsEarly(q) == processing \/ Len(q) = 0

(***************************************************************************)
(* enqueue's condition for calling processQueue: if (!this.processing)     *)
(***************************************************************************)
\* the condition inverted
AutoProcessInverted == processing

AutoProcess == ~processing

(***************************************************************************)
(* The catch block's retry test: item.retries < this.maxRetries            *)
(***************************************************************************)
\* the test with <= for <
MayRetryOffByOne(item) == item.retries <= maxRetries

MayRetry(item) == item.retries < maxRetries

(***************************************************************************)
(* Promise.allSettled(promises) of pass p's batch: fulfilled once every    *)
(* promise of the batch has settled, whatever each outcome was.            *)
(* FailFast is Promise.all: it also settles on the first rejection.        *)
(***************************************************************************)
SettledIds(p) == {r.id : r \in settled[p]}

FailFast(p) ==
    \/ batch[p] \subseteq SettledIds(p)
    \/ \E r \in settled[p] : ~r.success

AllSettled(p) == batch[p] \subseteq SettledIds(p)

(***************************************************************************)
(* What this.queue.splice(0, n) leaves in the queue q.                     *)
(***************************************************************************)
\* a splice that leaves the batch's last item in the queue
RemainingKeepsLast(q, n) == SubSeq(q, n, Len(q))

Remaining(q, n) == SubSeq(q, n + 1, Len(q))

\* a retry that puts the item back at the head of the queue
RequeueAtHead(q, item) == <<item>> \o q

\* this.queue.push(item) of the retry
Requeue(q, item) == Append(q, item)

(***************************************************************************)
(* The finally block of processQueue for pass p, the queue being q and the *)
(* pending timers t.                                                       *)
(***************************************************************************)
Finally(p, q, t) ==
    /\ processing' = FALSE
    /\ timers' = IF Len(q) > 0 THEN t + 1 ELSE t
    /\ queue' = q
    /\ pc' = [pc EXCEPT ![p] = "none"]
    /\ batch' = [batch EXCEPT ![p] = {}]
    /\ settled' = [settled EXCEPT ![p] = {}]
    /\ UNCHANGED <<inflight, invoked>>

(***************************************************************************)
(* The head of the while loop for pass p: with items left, splice the      *)
(* next batch off the head and call every item's insertFunction (the       *)
(* callbacks of batch.map run synchronously up to their await), then       *)
(* await Promise.allSettled; without items, leave the loop.                *)
(*   q: this.queue at that point, proc: this.processing, t: pending timers *)
(***************************************************************************)
LoopHead(p, q, proc, t) ==
    IF Len(q) > 0
    THEN LET n == MinOf(batchSize, Len(q))
             b == SubSeq(q, 1, n)
         IN  /\ queue' = Remaining(q, n)
             /\ inflight' = inflight \cup {[item |-> b[k], pass |-> p] : k \in 1..n}
             /\ invoked' = [i \in Items |->
                              invoked[i] + Cardinality({k \in 1..n : b[k].id = i})]
             /\ batch' = [batch EXCEPT ![p] = QueueIds(b)]
             /\ settled' = [settled EXCEPT ![p] = {}]
             /\ pc' = [pc EXCEPT ![p] = "join"]
             /\ processing' = proc
             /\ timers' = t
    ELSE Finally(p, q, t)

\* a processQueue that starts its first batch without setting the flag
processQueueFlagNotSet(q, t) ==
    IF ReturnsEarly(q)
    THEN /\ queue' = q
         /\ timers' = t
         /\ UNCHANGED <<processing, pc, batch, settled, inflight, invoked>>
    ELSE /\ \E p \in Passes : pc[p] = "none"
         /\ LoopHead(CHOOSE p \in Passes : pc[p] = "none", q, processing, t)

(***************************************************************************)
(* A call of processQueue() with this.queue = q and t pending timers.      *)
(***************************************************************************)
processQueue(q, t) ==
    IF ReturnsEarly(q)
    THEN /\ queue' = q
         /\ timers' = t
         /\ UNCHANGED <<processing, pc, batch, settled, inflight, invoked>>
    ELSE /\ \E p \in Passes : pc[p] = "none"
         /\ LoopHead(CHOOSE p \in Passes : pc[p] = "none", q, TRUE, t)

(***************************************************************************)
(* enqueue(movieData, insertFunction), insertFunction behaving as fn; max  *)
(* bounds the items enqueued in one behaviour.                             *)
(***************************************************************************)
enqueue(fn, max) ==
    /\ nextId <= max
    /\ LET item == [id |-> nextId, fn |-> fn, retries |-> 0]
           q    == Append(queue, item)
       IN  IF AutoProcess
           THEN processQueue(q, timers)
           ELSE /\ queue' = q
                /\ UNCHANGED <<processing, timers, pc, batch, settled,
                               inflight, invoked>>
    /\ nextId' = nextId + 1
    /\ lastOp' = "enqueue"
    /\ UNCHANGED <<apiVars, reqVars>>
    /\ clearState' = [active |-> FALSE, inflight |-> {}]
    /\ UNCHANGED <<batchSize, dropped, cleared>>

Enqueue == \E fn \in InsertKinds : enqueue(fn, MaxItems)

\* enqueue with an insertFunction that always fulfils
EnqueueSucceeding == enqueue("succeeds", MaxSucceeding)

(***************************************************************************)
(* processQueue() called on its own: by the 5 s timer's callback, or       *)
(* directly on the exported movieQueue.                                    *)
(***************************************************************************)
ProcessQueue ==
    \E viaTimer \in BOOLEAN :
        /\ viaTimer => timers > 0
        /\ processQueue(queue, IF viaTimer THEN timers - 1 ELSE timers)
        /\ lastOp' = "processQueue"
        /\ UNCHANGED <<apiVars, reqVars>>
        /\ UNCHANGED <<batchSize, nextId, dropped, cleared, clearState>>

(***************************************************************************)
(* await item.insertFunction(item.data) fulfils:                           *)
(* return { success: true, item }                                          *)
(***************************************************************************)
InsertSucceeds ==
    \E x \in inflight :
        /\ x.item.fn \in {"succeeds", "either"}
        /\ inflight' = inflight \ {x}
        /\ settled' = [settled EXCEPT ![x.pass] =
                          @ \cup {[id |-> x.item.id, success |-> TRUE]}]
        /\ lastOp' = "succeeded"
        /\ UNCHANGED <<apiVars, reqVars>>
        /\ UNCHANGED <<queue, processing, batchSize, timers, pc, batch,
                       nextId, invoked, dropped, cleared, clearState>>

(***************************************************************************)
(* await item.insertFunction(item.data) rejects: the catch block.  The     *)
(* insert functions are async functions, as the one createMoviesBatch      *)
(* passes: they reject after the call returned, they do not throw in it.   *)
(***************************************************************************)
InsertFails ==
    \E x \in inflight :
        /\ x.item.fn \in {"fails", "either"}
        /\ inflight' = inflight \ {x}
        /\ IF MayRetry(x.item)
           THEN /\ queue' = Requeue(queue, [x.item EXCEPT !.retries = @ + 1])
                /\ dropped' = dropped
           ELSE /\ queue' = queue
                /\ dropped' = dropped \cup {x.item.id}
        /\ settled' = [settled EXCEPT ![x.pass] =
                          @ \cup {[id |-> x.item.id, success |-> FALSE]}]
        /\ lastOp' = "failed"
        /\ UNCHANGED <<apiVars, reqVars>>
        /\ UNCHANGED <<processing, batchSize, timers, pc, batch,
                       nextId, invoked, cleared, clearState>>

(***************************************************************************)
(* await Promise.allSettled(promises) resumes pass p: with items in the    *)
(* queue start the 100 ms delay, else go round the loop (and out of it).   *)
(***************************************************************************)
BatchSettled ==
    \E p \in Passes :
        /\ pc[p] = "join"
        /\ AllSettled(p)
        /\ IF Len(queue) > 0
           THEN /\ pc' = [pc EXCEPT ![p] = "delay"]
                /\ batch' = [batch EXCEPT ![p] = {}]
                /\ settled' = [settled EXCEPT ![p] = {}]
                /\ UNCHANGED <<queue, processing, timers, inflight, invoked>>
           ELSE LoopHead(p, queue, processing, timers)
        /\ lastOp' = "batchSettled"
        /\ UNCHANGED <<apiVars, reqVars>>
        /\ UNCHANGED <<batchSize, nextId, dropped, cleared, clearState>>

(***************************************************************************)
(* The 100 ms timer resumes pass p at the head of the while loop.          *)
(***************************************************************************)
DelayElapsed ==
    \E p \in Passes :
        /\ pc[p] = "delay"
        /\ LoopHead(p, queue, processing, timers)
        /\ lastOp' = "delayElapsed"
        /\ UNCHANGED <<apiVars, reqVars>>
        /\ UNCHANGED <<batchSize, nextId, dropped, cleared, clearState>>

(***************************************************************************)
(* clear()                                                                 *)
(***************************************************************************)
\* a clear that also resets the processing flag
ClearAlsoStops ==
    /\ queue' = <<>>
    /\ processing' = FALSE
    /\ cleared' = cleared \cup QueueIds(queue)
    /\ clearState' = [active |-> TRUE, inflight |-> InflightIds]
    /\ lastOp' = "clear"
    /\ UNCHANGED <<apiVars, reqVars>>
    /\ UNCHANGED <<batchSize, timers, pc, batch, settled, inflight,
                   nextId, invoked, dropped>>

\* a clear that leaves the item at the head of the queue
ClearAllButHead ==
    /\ queue' = IF queue = <<>> THEN <<>> ELSE <<Head(queue)>>
    /\ cleared' = cleared \cup
                      QueueIds(IF queue = <<>> THEN <<>> ELSE Tail(queue))
    /\ clearState' = [active |-> TRUE, inflight |-> InflightIds]
    /\ lastOp' = "clear"
    /\ UNCHANGED <<apiVars, reqVars>>
    /\ UNCHANGED <<processing, batchSize, timers, pc, batch, settled, inflight,
                   nextId, invoked, dropped>>

Clear ==
    /\ queue' = <<>>
    /\ cleared' = cleared \cup QueueIds(queue)
    /\ clearState' = [active |-> TRUE, inflight |-> InflightIds]
    /\ lastOp' = "clear"
    /\ UNCHANGED <<apiVars, reqVars>>
    /\ UNCHANGED <<processing, batchSize, timers, pc, batch, settled, inflight,
                   nextId, invoked, dropped>>


(***************************************************************************)
(* Recommendation engine.  A JavaScript number is modelled exactly, as a   *)
(* count of 1/Scale units, or as NaN.                                      *)
(***************************************************************************)
Scale == 6000

Num(v) == [nan |-> FALSE, v |-> v]
NaN == [nan |-> TRUE, v |-> 0]
One == Num(Scale)
\* a / b of two counts; 0 / 0 is NaN and n / 0 is Infinity, here a number
\* above every other
FDiv(a, b) ==
    IF b = 0 THEN (IF a = 0 THEN NaN ELSE Num(Scale * Scale))
    ELSE Num((a * Scale) \div b)
\* x * (n / d) for the literal n / d
FMul(x, n, d) == IF x.nan THEN NaN ELSE Num((x.v * n) \div d)
FAdd(x, y) == IF x.nan \/ y.nan THEN NaN ELSE Num(x.v + y.v)
\* Math.min(x, y)
FMin(x, y) == IF x.nan \/ y.nan THEN NaN ELSE Num(MinOf(x.v, y.v))

\* String.prototype.toLowerCase on the strings of the model
toLowerCase(str) ==
    CASE str = "Action" -> "action"
      [] str = "Drama"  -> "drama"
      [] str = "Comedy" -> "comedy"
      [] str = "Nolan"  -> "nolan"
      [] str = "Bay"    -> "bay"
      [] OTHER          -> str

\* whether field f of userInteractions is absent (undefined): the record
\* lists its absent fields
IsUndefined(userInteractions, f) == f \in userInteractions.absent

\* the current year, and the year a Date falls in
Now == 2026

(***************************************************************************)
(* calculateGenreWeight                                                    *)
(***************************************************************************)
\* the function without the test for an empty preference list
calculateGenreWeightUnguarded(movieGenres, userInteractions) ==
    IF IsUndefined(userInteractions, "preferredGenres")
    THEN Num(Scale \div 2)
    ELSE LET prefs == userInteractions.preferredGenres
             matchingGenres == Cardinality(
                 {k \in 1..Len(movieGenres) :
                     \E j \in 1..Len(prefs) :
                         toLowerCase(prefs[j]) = toLowerCase(movieGenres[k])})
         IN  FMin(FDiv(matchingGenres, Len(movieGenres)), One)

calculateGenreWeight(movieGenres, userInteractions) ==
    IF \/ IsUndefined(userInteractions, "preferredGenres")
       \/ Len(userInteractions.preferredGenres) = 0
    THEN Num(Scale \div 2)
    ELSE LET prefs == userInteractions.preferredGenres
             matchingGenres == Cardinality(
                 {k \in 1..Len(movieGenres) :
                     \E j \in 1..Len(prefs) :
                         toLowerCase(prefs[j]) = toLowerCase(movieGenres[k])})
         IN  FMin(FDiv(matchingGenres, Len(movieGenres)), One)

(***************************************************************************)
(* calculateDirectorWeight                                                 *)
(***************************************************************************)
calculateDirectorWeight(movieDirector, userInteractions) ==
    IF \/ IsUndefined(userInteractions, "preferredDirectors")
       \/ Len(userInteractions.preferredDirectors) = 0
    THEN Num(Scale \div 2)
    ELSE LET prefs == userInteractions.preferredDirectors
             likedDirectors == [j \in 1..Len(prefs) |-> toLowerCase(prefs[j])]
         IN  IF \E j \in 1..Len(likedDirectors) :
                    likedDirectors[j] = toLowerCase(movieDirector)
             THEN One
             ELSE Num((3 * Scale) \div 10)

(***************************************************************************)
(* The filter both calculatePopularity and getTrendingMovies apply: the    *)
(* interactions of this movie whose timestamp is at most 7 days old.       *)
(***************************************************************************)
RecentInteractions(movie, allInteractions) ==
    IF movie.id \in DOMAIN allInteractions
    THEN allInteractions[movie.id].week
    ELSE 0

(***************************************************************************)
(* calculatePopularity                                                     *)
(***************************************************************************)
calculatePopularity(movie, allInteractions) ==
    FMin(FDiv(RecentInteractions(movie, allInteractions), 100), One)

(***************************************************************************)
(* calculateRecency                                                        *)
(***************************************************************************)
calculateRecency(releaseDate) ==
    LET yearsDiff == Now - releaseDate
    IN  IF yearsDiff <= 5 THEN One
        ELSE IF yearsDiff <= 10 THEN Num((7 * Scale) \div 10)
        ELSE IF yearsDiff <= 20 THEN Num((5 * Scale) \div 10)
        ELSE Num((3 * Scale) \div 10)

(***************************************************************************)
(* calculateInteractionWeight                                              *)
(***************************************************************************)
calculateInteractionWeight(movieId, userInteractions) ==
    LET viewed ==
            /\ ~IsUndefined(userInteractions, "viewedMovies")
            /\ \E k \in 1..Len(userInteractions.viewedMovies) :
                   userInteractions.viewedMovies[k].movieId = movieId
    IN  IF viewed THEN Num(Scale \div 10) ELSE Num((8 * Scale) \div 10)

(***************************************************************************)
(* calculateRecommendationScore                                            *)
(***************************************************************************)
calculateRecommendationScore(movie, userInteractions, allInteractions) ==
    LET genreWeight == calculateGenreWeight(movie.genre, userInteractions)
        s1 == FAdd(Num(0), FMul(genreWeight, 4, 10))
        directorWeight == calculateDirectorWeight(movie.director, userInteractions)
        s2 == FAdd(s1, FMul(directorWeight, 2, 10))
        ratingWeight == FMul(FDiv(movie.rating, 10), 15, 100)
        s3 == FAdd(s2, ratingWeight)
        popularityWeight == calculatePopularity(movie, allInteractions)
        s4 == FAdd(s3, FMul(popularityWeight, 1, 10))
        recencyWeight == calculateRecency(movie.releaseDate)
        s5 == FAdd(s4, FMul(recencyWeight, 1, 10))
        interactionWeight == calculateInteractionWeight(movie.id, userInteractions)
        s6 == FAdd(s5, FMul(interactionWeight, 5, 100))
    IN  FMin(s6, One)

(***************************************************************************)
(* Array.prototype.sort((a, b) => b.score - a.score).  The comparator's    *)
(* result NaN counts as 0.  With a consistent comparator the sort is the   *)
(* stable one; otherwise the order is implementation-defined: any          *)
(* permutation.                                                            *)
(***************************************************************************)
\* b.score - a.score as a sign, or 0 for NaN
CompareDesc(a, b) ==
    IF a.score.nan \/ b.score.nan THEN 0
    ELSE IF b.score.v < a.score.v THEN -1
    ELSE IF b.score.v > a.score.v THEN 1
    ELSE 0

\* x put into the sorted s behind every element that does not sort after it
InsertSorted(s, x) ==
    LET later == {k \in 1..Len(s) : CompareDesc(s[k], x) > 0}
        at == IF later = {} THEN Len(s) + 1
              ELSE CHOOSE k \in later : \A j \in later : k <= j
    IN  SubSeq(s, 1, at - 1) \o <<x>> \o SubSeq(s, at, Len(s))

RECURSIVE StableSortDesc(_)
StableSortDesc(s) ==
    IF Len(s) = 0 THEN <<>>
    ELSE InsertSorted(StableSortDesc(SubSeq(s, 1, Len(s) - 1)), s[Len(s)])

ConsistentComparator(s) ==
    \A i, j, k \in 1..Len(s) :
        (CompareDesc(s[i], s[j]) = 0 /\ CompareDesc(s[j], s[k]) = 0)
            => CompareDesc(s[i], s[k]) = 0

Reorderings(s) ==
    {[k \in 1..Len(s) |-> s[f[k]]] :
        f \in {g \in [1..Len(s) -> 1..Len(s)] :
                  \A a, b \in 1..Len(s) : a # b => g[a] # g[b]}}

SortOutcomes(s) ==
    IF ConsistentComparator(s) THEN {StableSortDesc(s)} ELSE Reorderings(s)

(***************************************************************************)
(* Array.prototype.slice(0, limit): a negative limit counts from the end.  *)
(***************************************************************************)
Slice(s, limit) ==
    LET final == IF limit < 0
                 THEN (IF Len(s) + limit < 0 THEN 0 ELSE Len(s) + limit)
                 ELSE MinOf(limit, Len(s))
    IN  SubSeq(s, 1, final)

(***************************************************************************)
(* getPersonalizedFeed: the movies with their scores, and the possible     *)
(* results.                                                                *)
(***************************************************************************)
moviesWithScores(movies, userInteractions, allInteractions) ==
    [k \in 1..Len(movies) |->
        [movie |-> movies[k],
         score |-> calculateRecommendationScore(movies[k], userInteractions,
                                                allInteractions)]]

getPersonalizedFeed(movies, userInteractions, allInteractions, limit) ==
    {[k \in 1..Len(Slice(sorted, limit)) |-> sorted[k].movie] :
        sorted \in SortOutcomes(
            moviesWithScores(movies, userInteractions, allInteractions))}

(***************************************************************************)
(* getTrendingMovies                                                       *)
(***************************************************************************)
trendingScore(movie, allInteractions) ==
    FAdd(FMul(FDiv(movie.rating, 10), 5, 10),
         FMul(FMin(FDiv(RecentInteractions(movie, allInteractions), 50), One), 5, 10))

moviesWithTrendingScore(movies, allInteractions) ==
    [k \in 1..Len(movies) |->
        [movie |-> movies[k], score |-> trendingScore(movies[k], allInteractions)]]

getTrendingMovies(movies, allInteractions, limit) ==
    {[k \in 1..Len(Slice(sorted, limit)) |-> sorted[k].movie] :
        sorted \in SortOutcomes(moviesWithTrendingScore(movies, allInteractions))}

(***************************************************************************)
(* The stores the handlers read.                                           *)
(***************************************************************************)
\* movies in the collection
MaxMovies == 2

MovieIds == 1..MaxMovies

\* the attributes a movie document is drawn from
MovieKinds ==
    { [genre |-> <<"Action", "Drama">>, director |-> "Nolan", rating |-> 8,
       releaseDate |-> 2024],
      [genre |-> <<"Comedy">>, director |-> "Bay", rating |-> 10,
       releaseDate |-> 1990],
      [genre |-> <<>>, director |-> "Nolan", rating |-> 0,
       releaseDate |-> 2018] }

MovieDoc(id, kind) ==
    [id |-> id, genre |-> kind.genre, director |-> kind.director,
     rating |-> kind.rating, releaseDate |-> kind.releaseDate]

MovieStores ==
    UNION {{[k \in 1..n |-> MovieDoc(k, kinds[k])] : kinds \in [1..n -> MovieKinds]} :
              n \in 0..MaxMovies}

UserHistories ==
    {h \in [absent             : SUBSET {"preferredGenres", "preferredDirectors"},
            preferredGenres    : {<<>>, <<"action">>},
            preferredDirectors : {<<>>, <<"nolan">>},
            viewedMovies       : {<<>>, <<[_id |-> 1, movieId |-> 1, viewedAt |-> 0]>>},
            likedMovies        : {<<>>},
            searchHistory      : {<<>>}] :
        \A f \in h.absent : h[f] = <<>>}

InteractionCounts ==
    {[week |-> 0, month |-> 70], [week |-> 120, month |-> 5]}

\* req.query.limit as parseInt reads it: NaN for an absent or non-numeric
\* parameter, else the integer
QueryLimits == {NaN, Num(-1), Num(0), Num(1)}

\* parseInt(req.query.limit) || 20
LimitOf(parsed) == IF parsed.nan \/ parsed.v = 0 THEN 20 ELSE parsed.v

NoResponse == [kind |-> "none"]

ApiIdle ==
    /\ movieStore = <<>>
    /\ userHistory = [absent |-> {}, preferredGenres |-> <<>>, preferredDirectors |-> <<>>,
                      viewedMovies |-> <<>>, likedMovies |-> <<>>,
                      searchHistory |-> <<>>]
    /\ interactionStore = <<>>
    /\ response = NoResponse

NoRoute == [method |-> "none"]

ReqIdle ==
    /\ requests = <<>>
    /\ interactionLog = <<>>
    /\ routed = NoRoute

ApiInit ==
    /\ movieStore \in MovieStores
    /\ userHistory \in UserHistories
    /\ interactionStore \in [1..Len(movieStore) -> InteractionCounts]
    /\ response = NoResponse

(***************************************************************************)
(* getMovieFeed: GET /api/movies/feed of the authenticated user.  The      *)
(* response records, beside the data, the limit handed over and the        *)
(* scores computed for the movies read.                                    *)
(***************************************************************************)
GetMovieFeed ==
    \E parsed \in QueryLimits :
        LET limit == LimitOf(parsed)
            scored == moviesWithScores(movieStore, userHistory, interactionStore)
        IN  /\ \E data \in getPersonalizedFeed(movieStore, userHistory,
                                               interactionStore, limit) :
                  response' =
                      [kind |-> "feed", limit |-> limit, data |-> data,
                       scored |-> [k \in 1..Len(scored) |->
                           [id |-> scored[k].movie.id,
                            score |-> scored[k].score,
                            genreWeight |->
                                calculateGenreWeight(scored[k].movie.genre, userHistory),
                            directorWeight |->
                                calculateDirectorWeight(scored[k].movie.director,
                                                        userHistory)]]]
            /\ UNCHANGED <<movieStore, userHistory, interactionStore>>
            /\ UNCHANGED <<queueVars, reqVars>>

(***************************************************************************)
(* getTrending: GET /api/movies/trending                                   *)
(***************************************************************************)
GetTrending ==
    \E parsed \in QueryLimits :
        LET limit == LimitOf(parsed)
            scored == moviesWithTrendingScore(movieStore, interactionStore)
        IN  /\ \E data \in getTrendingMovies(movieStore, interactionStore, limit) :
                  response' =
                      [kind |-> "trending", limit |-> limit, data |-> data,
                       scored |-> [k \in 1..Len(scored) |->
                           [id |-> scored[k].movie.id, score |-> scored[k].score]]]
            /\ UNCHANGED <<movieStore, userHistory, interactionStore>>
            /\ UNCHANGED <<queueVars, reqVars>>

NextApi ==
    \/ GetMovieFeed
    \/ GetTrending

InitApi == QueueInit /\ ApiInit /\ ReqIdle

SpecApi == InitApi /\ [][NextApi]_vars

(***************************************************************************)
(* The handlers that read and write the stores.  A handler is an async     *)
(* function: its arrival action runs it up to its first await, and each    *)
(* later action is one store operation taking effect and the code after    *)
(* its await, up to the next await or the response.  Requests of different *)
(* clients interleave between these actions.                               *)
(***************************************************************************)
\* requests received in one behaviour
MaxRequests == 2

\* req.params.id: a movie of the initial collection, or an id of no movie
TargetIds == {1, 2}

\* req.body.interactionType: the values the UserInteraction schema lists
InteractionTypes == {"view", "like", "share", "search", "click"}

\* a validTypes that accepts every type the schema lists
validTypesOfSchema == InteractionTypes

\* validTypes of trackInteraction
validTypes == {"view", "like", "share", "click"}

\* validSortFields of getSortedMovies
validSortFields == {"title", "rating", "releaseDate", "duration"}

\* Movie.findById(id): the document, or null (the empty sequence)
FindById(store, id) == SelectSeq(store, LAMBDA m : m.id = id)

\* $addToSet of one value: appended unless an equal element is in the array
AddToSet(array, v) ==
    IF \E k \in 1..Len(array) : array[k] = v THEN array ELSE Append(array, v)

\* $addToSet with $each
RECURSIVE AddEachToSet(_, _)
AddEachToSet(array, vs) ==
    IF vs = <<>> THEN array
    ELSE AddEachToSet(AddToSet(array, Head(vs)), Tail(vs))

\* the _id Mongoose gives a subdocument cast from an update
NewObjectId(array) == Len(array) + 1

NewRequest(handler, id, arg, user, stage, status) ==
    [handler |-> handler, id |-> id, arg |-> arg, user |-> user, pc |-> stage,
     accesses |-> 0, status |-> status, movie |-> <<>>]

Receive(r) ==
    /\ Len(requests) < MaxRequests
    /\ requests' = Append(requests, r)
    /\ UNCHANGED <<movieStore, userHistory, interactionStore, interactionLog>>

\* request k stands at the await named stage of handler
At(k, handler, stage) ==
    /\ requests[k].handler = handler
    /\ requests[k].pc = stage

\* the store operation request k awaited has run; the handler goes on to
\* its next await
Resume(k, stage) ==
    requests' = [requests EXCEPT ![k].pc = stage, ![k].accesses = @ + 1]

\* ... and the handler has responded, or thrown the ApiError, with status
Respond(k, status) ==
    requests' = [requests EXCEPT ![k].pc = "done", ![k].accesses = @ + 1,
                                 ![k].status = status]

\* UserInteraction.create({ userId, movieId, interactionType, ... })
CreateInteraction(k, interactionType) ==
    LET id == requests[k].id
    IN  /\ interactionLog' = Append(interactionLog,
               [request |-> k, movieId |-> id, interactionType |-> interactionType,
                movieExists |-> FindById(movieStore, id) # <<>>])
        /\ interactionStore' =
               [m \in DOMAIN interactionStore |->
                   IF m = id THEN [interactionStore[m] EXCEPT !.week = @ + 1]
                   ELSE interactionStore[m]]

(***************************************************************************)
(* getMovieById: GET /api/movies/:id                                       *)
(***************************************************************************)
GetMovieById ==
    \E id \in TargetIds, user \in BOOLEAN :
        /\ Receive(NewRequest("getMovieById", id, "", user, "findById", 0))
        /\ UNCHANGED <<queueVars, response, routed>>

\* await Movie.findById(req.params.id)
GetMovieByIdFind ==
    \E k \in DOMAIN requests :
        /\ At(k, "getMovieById", "findById")
        /\ LET movie == FindById(movieStore, requests[k].id)
           IN  IF movie = <<>>
               THEN Respond(k, 404)
               ELSE IF requests[k].user
                    THEN requests' = [requests EXCEPT ![k].pc = "create",
                                          ![k].accesses = @ + 1, ![k].movie = movie]
                    ELSE Respond(k, 200)
        /\ UNCHANGED <<movieStore, userHistory, interactionStore, interactionLog>>
        /\ UNCHANGED <<queueVars, response, routed>>

\* await UserInteraction.create({ ..., interactionType: "view", ... })
GetMovieByIdCreate ==
    \E k \in DOMAIN requests :
        /\ At(k, "getMovieById", "create")
        /\ CreateInteraction(k, "view")
        /\ Resume(k, "update")
        /\ UNCHANGED <<movieStore, userHistory>>
        /\ UNCHANGED <<queueVars, response, routed>>

\* await User.findByIdAndUpdate(req.user.id, { $addToSet: { ... } })
GetMovieByIdUpdate ==
    \E k \in DOMAIN requests :
        /\ At(k, "getMovieById", "update")
        /\ LET movie == requests[k].movie[1]
           IN  userHistory' =
                   [userHistory EXCEPT
                       !.viewedMovies =
                           AddToSet(@, [_id |-> NewObjectId(@), movieId |-> movie.id,
                                        viewedAt |-> Now]),
                       !.preferredGenres = AddEachToSet(@, movie.genre),
                       !.preferredDirectors = AddToSet(@, movie.director),
                       !.absent = {}]
        /\ Respond(k, 200)
        /\ UNCHANGED <<movieStore, interactionStore, interactionLog>>
        /\ UNCHANGED <<queueVars, response, routed>>

(***************************************************************************)
(* trackInteraction: POST /api/movies/:id/interaction                      *)
(***************************************************************************)
TrackInteraction ==
    \E id \in TargetIds, interactionType \in InteractionTypes :
        /\ IF interactionType \notin validTypes
           THEN Receive(NewRequest("trackInteraction", id, interactionType, TRUE,
                                   "done", 400))
           ELSE Receive(NewRequest("trackInteraction", id, interactionType, TRUE,
                                   "findById", 0))
        /\ UNCHANGED <<queueVars, response, routed>>

\* await Movie.findById(id)
TrackInteractionFind ==
    \E k \in DOMAIN requests :
        /\ At(k, "trackInteraction", "findById")
        /\ LET movie == FindById(movieStore, requests[k].id)
           IN  IF movie = <<>>
               THEN Respond(k, 404)
               ELSE requests' = [requests EXCEPT ![k].pc = "create",
                                     ![k].accesses = @ + 1, ![k].movie = movie]
        /\ UNCHANGED <<movieStore, userHistory, interactionStore, interactionLog>>
        /\ UNCHANGED <<queueVars, response, routed>>

\* await UserInteraction.create({ ..., interactionType, ... })
TrackInteractionCreate ==
    \E k \in DOMAIN requests :
        /\ At(k, "trackInteraction", "create")
        /\ CreateInteraction(k, requests[k].arg)
        /\ IF requests[k].arg = "like"
           THEN Resume(k, "update")
           ELSE Respond(k, 201)
        /\ UNCHANGED <<movieStore, userHistory>>
        /\ UNCHANGED <<queueVars, response, routed>>

\* await User.findByIdAndUpdate(userId, { $addToSet: { ... } })
TrackInteractionUpdate ==
    \E k \in DOMAIN requests :
        /\ At(k, "trackInteraction", "update")
        /\ LET movie == requests[k].movie[1]
           IN  userHistory' =
                   [userHistory EXCEPT
                       !.likedMovies = AddToSet(@, requests[k].id),
                       !.preferredGenres = AddEachToSet(@, movie.genre),
                       !.preferredDirectors = AddToSet(@, movie.director),
                       !.absent = {}]
        /\ Respond(k, 201)
        /\ UNCHANGED <<movieStore, interactionStore, interactionLog>>
        /\ UNCHANGED <<queueVars, response, routed>>

(***************************************************************************)
(* deleteMovie: DELETE /api/movies/:id                                     *)
(***************************************************************************)
DeleteMovie ==
    \E id \in TargetIds :
        /\ Receive(NewRequest("deleteMovie", id, "", TRUE, "findById", 0))
        /\ UNCHANGED <<queueVars, response, routed>>

\* await Movie.findById(req.params.id)
DeleteMovieFind ==
    \E k \in DOMAIN requests :
        /\ At(k, "deleteMovie", "findById")
        /\ LET movie == FindById(movieStore, requests[k].id)
           IN  IF movie = <<>>
               THEN Respond(k, 404)
               ELSE requests' = [requests EXCEPT ![k].pc = "deleteOne",
                                     ![k].accesses = @ + 1, ![k].movie = movie]
        /\ UNCHANGED <<movieStore, userHistory, interactionStore, interactionLog>>
        /\ UNCHANGED <<queueVars, response, routed>>

\* await movie.deleteOne()
DeleteMovieDeleteOne ==
    \E k \in DOMAIN requests :
        /\ At(k, "deleteMovie", "deleteOne")
        /\ movieStore' = SelectSeq(movieStore, LAMBDA m : m.id # requests[k].id)
        /\ Respond(k, 200)
        /\ UNCHANGED <<userHistory, interactionStore, interactionLog>>
        /\ UNCHANGED <<queueVars, response, routed>>

(***************************************************************************)
(* getSortedMovies: GET /api/movies/sorted?sortBy=...                      *)
(***************************************************************************)
\* req.query.sortBy, "rating" when absent
SortFields == {"rating", "title", "budget"}

GetSortedMovies ==
    \E sortBy \in SortFields :
        /\ IF sortBy \notin validSortFields
           THEN Receive(NewRequest("getSortedMovies", 0, sortBy, FALSE, "done", 400))
           ELSE Receive(NewRequest("getSortedMovies", 0, sortBy, FALSE, "find", 0))
        /\ UNCHANGED <<queueVars, response, routed>>

\* await Movie.find().sort(sortObject).skip(skip).limit(limit).lean()
GetSortedMoviesFind ==
    \E k \in DOMAIN requests :
        /\ At(k, "getSortedMovies", "find")
        /\ Resume(k, "countDocuments")
        /\ UNCHANGED <<movieStore, userHistory, interactionStore, interactionLog>>
        /\ UNCHANGED <<queueVars, response, routed>>

\* await Movie.countDocuments()
GetSortedMoviesCount ==
    \E k \in DOMAIN requests :
        /\ At(k, "getSortedMovies", "countDocuments")
        /\ Respond(k, 200)
        /\ UNCHANGED <<movieStore, userHistory, interactionStore, interactionLog>>
        /\ UNCHANGED <<queueVars, response, routed>>

(***************************************************************************)
(* searchMovies: GET /api/movies/search?q=...                              *)
(***************************************************************************)
\* req.query.q: absent (or empty), or a query string
SearchQueries == {"", "nolan"}

SearchMovies ==
    \E q \in SearchQueries, user \in BOOLEAN :
        /\ IF q = ""
           THEN Receive(NewRequest("searchMovies", 0, q, user, "done", 400))
           ELSE Receive(NewRequest("searchMovies", 0, q, user,
                                   IF user THEN "push" ELSE "textSearch", 0))
        /\ UNCHANGED <<queueVars, response, routed>>

\* await User.findByIdAndUpdate(req.user.id, { $push: { searchHistory } })
SearchMoviesPush ==
    \E k \in DOMAIN requests :
        /\ At(k, "searchMovies", "push")
        /\ userHistory' =
               [userHistory EXCEPT
                   !.searchHistory =
                       Append(@, [_id |-> NewObjectId(@), query |-> requests[k].arg,
                                  searchedAt |-> Now])]
        /\ Resume(k, "textSearch")
        /\ UNCHANGED <<movieStore, interactionStore, interactionLog>>
        /\ UNCHANGED <<queueVars, response, routed>>

\* await Movie.find({ $text: { $search: q } }, ...): the text index decides
\* which movies match; an empty result leads to the regex search
SearchMoviesText ==
    \E k \in DOMAIN requests, matches \in BOOLEAN :
        /\ At(k, "searchMovies", "textSearch")
        /\ matches => movieStore # <<>>
        /\ IF matches THEN Respond(k, 200) ELSE Resume(k, "regexSearch")
        /\ UNCHANGED <<movieStore, userHistory, interactionStore, interactionLog>>
        /\ UNCHANGED <<queueVars, response, routed>>

\* await Movie.find({ $or: [{ title: searchRegex }, ...] })
SearchMoviesRegex ==
    \E k \in DOMAIN requests :
        /\ At(k, "searchMovies", "regexSearch")
        /\ Respond(k, 200)
        /\ UNCHANGED <<movieStore, userHistory, interactionStore, interactionLog>>
        /\ UNCHANGED <<queueVars, response, routed>>

(***************************************************************************)
(* The store handlers over a collection of one movie and a user without    *)
(* history.                                                                *)
(***************************************************************************)
RequestInit ==
    /\ movieStore \in {<<MovieDoc(1, kind)>> : kind \in MovieKinds}
    /\ userHistory = [absent |-> {}, preferredGenres |-> <<>>,
                      preferredDirectors |-> <<>>, viewedMovies |-> <<>>,
                      likedMovies |-> <<>>, searchHistory |-> <<>>]
    /\ interactionStore = [m \in {1} |-> [week |-> 0, month |-> 0]]
    /\ response = NoResponse

InitRequests == QueueInit /\ RequestInit /\ ReqIdle

NextRequests ==
    \/ GetMovieById
    \/ GetMovieByIdFind
    \/ GetMovieByIdCreate
    \/ GetMovieByIdUpdate
    \/ TrackInteraction
    \/ TrackInteractionFind
    \/ TrackInteractionCreate
    \/ TrackInteractionUpdate
    \/ DeleteMovie
    \/ DeleteMovieFind
    \/ DeleteMovieDeleteOne
    \/ GetSortedMovies
    \/ GetSortedMoviesFind
    \/ GetSortedMoviesCount
    \/ SearchMovies
    \/ SearchMoviesPush
    \/ SearchMoviesText
    \/ SearchMoviesRegex

SpecRequests == InitRequests /\ [][NextRequests]_vars

Init == QueueInit /\ ApiIdle /\ ReqIdle

Next ==
    \/ Enqueue
    \/ ProcessQueue
    \/ InsertSucceeds
    \/ InsertFails
    \/ BatchSettled
    \/ DelayElapsed
    \/ Clear

Spec == Init /\ [][Next]_vars

(***************************************************************************)
(* The queue fed only with insert operations that always fulfil, and never *)
(* cleared.  The event loop runs every settled promise's continuation and  *)
(* every expired timer, and the insert operations settle: weak fairness of *)
(* the three continuations.                                                *)
(***************************************************************************)
NextAllSucceed ==
    \/ EnqueueSucceeding
    \/ ProcessQueue
    \/ InsertSucceeds
    \/ BatchSettled
    \/ DelayElapsed

SpecAllSucceed ==
    /\ Init
    /\ [][NextAllSucceed]_vars
    /\ WF_vars(InsertSucceeds)
    /\ WF_vars(BatchSettled)
    /\ WF_vars(DelayElapsed)

(***************************************************************************)
(* The movie router, mounted at /api/movies.  A path is the sequence of    *)
(* its segments below the mount point; a route is its method, its path     *)
(* pattern and its chain of middleware ending in the handler.              *)
(***************************************************************************)
Route(method, path, chain) == [method |-> method, path |-> path, chain |-> chain]

\* the routes in the order the router declares them
routes ==
    << Route("GET", <<>>, <<"getMovies">>),
       Route("GET", <<"trending">>, <<"getTrending">>),
       Route("GET", <<"sorted">>, <<"getSortedMovies">>),
       Route("GET", <<"search">>, <<"optionalAuth", "searchMovies">>),
       Route("GET", <<":id">>, <<"optionalAuth", "getMovieById">>),
       Route("GET", <<"feed">>, <<"protect", "getMovieFeed">>),
       Route("POST", <<":id", "interaction">>, <<"protect", "trackInteraction">>),
       Route("POST", <<>>, <<"protect", "authorize", "createMovie">>),
       Route("POST", <<"batch">>, <<"protect", "authorize", "createMoviesBatch">>),
       Route("PUT", <<":id">>, <<"protect", "authorize", "updateMovie">>),
       Route("DELETE", <<":id">>, <<"protect", "authorize", "deleteMovie">>) >>

\* a path pattern matches a path of as many segments, a parameter segment
\* matching any segment
Matches(pattern, path) ==
    /\ Len(pattern) = Len(path)
    /\ \A k \in 1..Len(pattern) : pattern[k] = ":id" \/ pattern[k] = path[k]

\* the chain of the first route declared that matches; the application's
\* 404 handler when no route does
Dispatch(method, path) ==
    LET matching == {k \in 1..Len(routes) :
                        routes[k].method = method /\ Matches(routes[k].path, path)}
    IN  IF matching = {} THEN <<"notFound">>
        ELSE routes[CHOOSE k \in matching : \A j \in matching : k <= j].chain

\* what the request carries as Authorization: no token, a token that does not
\* verify, the token of a user, the token of an admin
Credentials == {"none", "invalid", "user", "admin"}

\* the functions of a chain that run: a middleware that calls next(error)
\* ends the chain with the ApiError's status
RECURSIVE Run(_, _)
Run(chain, credential) ==
    IF chain = <<>> THEN <<>>
    ELSE IF Head(chain) = "protect" /\ credential \in {"none", "invalid"}
         THEN <<"protect", "401">>
    ELSE IF Head(chain) = "authorize" /\ credential # "admin"
         THEN <<"authorize", "403">>
    ELSE <<Head(chain)>> \o Run(Tail(chain), credential)

Methods == {"GET", "POST", "PUT", "DELETE"}

Paths ==
    { <<>>, <<"trending">>, <<"sorted">>, <<"search">>, <<"feed">>, <<"batch">>,
      <<"1">>, <<"1", "interaction">>, <<"feed", "interaction">> }

(***************************************************************************)
(* The router receives a request and runs the chain it dispatches to.      *)
(***************************************************************************)
RouteRequest ==
    \E method \in Methods, path \in Paths, credential \in Credentials :
        /\ routed' = [method |-> method, path |-> path, credential |-> credential,
                      chain |-> Dispatch(method, path),
                      ran |-> Run(Dispatch(method, path), credential)]
        /\ UNCHANGED <<queueVars, apiVars, requests, interactionLog>>

SpecRouter == Init /\ [][RouteRequest]_vars

(***************************************************************************)
(* A burst of enqueues, as createMoviesBatch makes them, in which the      *)
(* first item's insert operation may fail and all others fulfil.           *)
(***************************************************************************)
EnqueueBurst ==
    \E fn \in (IF nextId = 1 THEN {"either"} ELSE {"succeeds"}) :
        enqueue(fn, MaxSucceeding)

NextBurst ==
    \/ EnqueueBurst
    \/ InsertSucceeds
    \/ InsertFails
    \/ BatchSettled
    \/ DelayElapsed

SpecBurst == Init /\ [][NextBurst]_vars

(***************************************************************************)
(* Properties of the queue                                                 *)
(***************************************************************************)

\* C1: at most one processQueue pass is active at any time, the processing
\* flag is true exactly while a pass is active, and a call of processQueue
\* made while processing is true removes no item, invokes no insert
\* operation and starts no pass.
C1_SinglePass ==
    [][ /\ Cardinality(ActivePasses') <= 1
        /\ processing' <=> (ActivePasses' # {})
        /\ (lastOp' = "processQueue" /\ processing)
              => UNCHANGED <<queue, inflight, invoked, pc, batch, processing>>
      ]_vars

\* a processQueue call arrived while a pass was running with items pending
C1_Witness ==
    /\ lastOp = "processQueue"
    /\ processing
    /\ Len(queue) > 0
    /\ inflight # {}

\* C2: with insert operations that always fulfil, no item's insert operation
\* is ever invoked twice, and eventually, for good, every enqueued item has
\* been invoked exactly once, the queue is empty and processing is false.
C2_AllProcessedOnce ==
    /\ [](\A i \in Items : invoked[i] <= 1)
    /\ <>[](/\ queue = <<>>
            /\ ~processing
            /\ inflight = {}
            /\ \A i \in 1..(nextId - 1) : invoked[i] = 1)

\* all MaxItems items were enqueued and processed, the pass has ended
C2_Witness ==
    /\ nextId = MaxSucceeding + 1
    /\ queue = <<>>
    /\ ~processing
    /\ inflight = {}
    /\ lastOp = "batchSettled"
    /\ \A i \in Items : invoked[i] = 1

\* C3: an item waiting in the queue has been invoked as many times as its
\* retry count (the count is incremented before the item is re-appended), an
\* item in flight once more than that; the retry count never exceeds
\* maxRetries, so an item is invoked at most 1 + maxRetries times; and an
\* item logged as a terminal failure was invoked exactly 1 + maxRetries
\* times and is neither in the queue nor in flight again.
C3_RetriesThenDropped ==
    /\ \A k \in 1..Len(queue) :
          /\ queue[k].retries <= maxRetries
          /\ invoked[queue[k].id] = queue[k].retries
    /\ \A x \in inflight : invoked[x.item.id] = x.item.retries + 1
    /\ \A i \in Items : invoked[i] <= maxRetries + 1
    /\ \A i \in dropped :
          /\ invoked[i] = maxRetries + 1
          /\ i \notin QueueIds(queue)
          /\ i \notin InflightIds

\* an item whose insert operation always fails has been dropped
C3_Witness ==
    /\ 1 \in dropped
    /\ invoked[1] = maxRetries + 1
    /\ lastOp = "failed"
    /\ \A x \in inflight : x.item.fn # "either"
    /\ \A k \in 1..Len(queue) : queue[k].fn # "either"
    /\ nextId = 2

\* C4: a pass leaves its await of a batch only when every item of the batch
\* has settled, and while it waits every item of the batch is either settled
\* or still in flight: a sibling's failure takes no item out of the batch.
C4_BatchJoin ==
    [][ /\ \A p \in Passes :
              (pc[p] = "join" /\ pc'[p] # "join") => batch[p] \subseteq SettledIds(p)
        /\ \A p \in Passes :
              pc'[p] = "join" =>
                 batch'[p] \subseteq
                    (SettledIds(p)' \cup {x.item.id : x \in {y \in inflight' : y.pass = p}})
      ]_vars

\* a batch of which one item failed and another succeeded has fully settled
C4_Witness ==
    \E p \in Passes :
        /\ pc[p] = "join"
        /\ AllSettled(p)
        /\ \E r1, r2 \in settled[p] : r1.success /\ ~r2.success

\* C5: an enqueue call only appends its item: it removes nothing from the
\* queue and invokes no insert operation.
C5_EnqueueOnlyAppends ==
    [][ nextId' = nextId + 1 =>
          /\ Len(queue') = Len(queue) + 1
          /\ invoked' = invoked
          /\ inflight' = inflight
      ]_vars

\* C6: with processing false and no reschedule timer pending the queue is
\* empty; whenever items are pending, a timer is pending or a pass is
\* waiting for a batch or for the inter-batch delay, and a waiting pass has
\* an insert operation in flight or its batch settled; after every enqueue a
\* pass is running.
C6_NothingLeftPending ==
    /\ (~processing /\ timers = 0) => queue = <<>>
    /\ queue # <<>> => (timers > 0 \/ \E p \in Passes : pc[p] \in {"join", "delay"})
    /\ \A p \in Passes :
          pc[p] = "join" => (AllSettled(p) \/ \E x \in inflight : x.pass = p)
    /\ lastOp = "enqueue" => processing

\* the first pass has stopped and the enqueue of item 2 started a new one
C6_Witness ==
    /\ lastOp = "enqueue"
    /\ nextId = 3
    /\ InflightIds = {2}
    /\ queue = <<>>
    /\ processing

\* C7: clear leaves the queue length reported by getStatus at 0 and changes
\* neither the processing flag nor the batch size, and an item that clear
\* discarded is never invoked afterwards and never in the queue or in flight
\* again.
C7_ClearDropsPending ==
    [][ /\ lastOp' = "clear" =>
              /\ getStatus'.queueLength = 0
              /\ getStatus'.processing = getStatus.processing
              /\ getStatus'.batchSize = getStatus.batchSize
        /\ \A i \in cleared : invoked'[i] = invoked[i]
        /\ \A i \in cleared' : i \notin (QueueIds(queue') \cup InflightIds')
      ]_vars

\* clear discarded pending items while a batch was in flight
C7_Witness ==
    /\ lastOp = "clear"
    /\ cleared # {}
    /\ processing
    /\ inflight # {}

\* C17 as the claim states it: once clear has been called and as long as no
\* enqueue follows it, the queue is empty and no insert operation is invoked.
C17_StaysEmptyAfterClear ==
    [][ clearState'.active =>
            /\ queue' = <<>>
            /\ clearState.active => invoked' = invoked
      ]_vars

\* C17, amended: once clear has been called and as long as no enqueue follows
\* it, only items that were in flight when clear was called are ever in the
\* queue or in flight, and only their insert operations are invoked; with
\* nothing in flight at the clear the queue stays empty and no insert
\* operation is invoked.
C17_OnlyInFlightItemsReturn ==
    [][ clearState'.active =>
            /\ (QueueIds(queue') \cup InflightIds') \subseteq clearState'.inflight
            /\ clearState.active =>
                  \A i \in Items \ clearState.inflight : invoked'[i] = invoked[i]
            /\ clearState'.inflight = {} =>
                  /\ queue' = <<>>
                  /\ clearState.active => invoked' = invoked
      ]_vars

\* an item that was in flight when clear discarded the pending items has
\* failed and is back in the queue
C17_Witness ==
    /\ clearState.active
    /\ cleared # {}
    /\ lastOp = "failed"
    /\ queue # <<>>
    /\ QueueIds(queue) \subseteq clearState.inflight


(***************************************************************************)
(* Properties of the recommendation engine and the feed handlers           *)
(***************************************************************************)
Half == Num(Scale \div 2)

\* the score the last response computed for the movie with this id
ScoreOf(id) == response.scored[id].score

\* C8: every score getMovieFeed computed with calculateRecommendationScore
\* is a number in [0, 1].
C8_ScoreInUnitInterval ==
    response.kind = "feed" =>
        \A k \in 1..Len(response.scored) :
            /\ ~response.scored[k].score.nan
            /\ 0 <= response.scored[k].score.v
            /\ response.scored[k].score.v <= Scale

\* C9: the data of a feed or trending response holds at most limit entries
\* (none for a negative limit), each a movie of the collection and none
\* twice, in descending order of score, movies of equal score in the order
\* of the collection.
C9_FeedSortedAndCapped ==
    response.kind \in {"feed", "trending"} =>
        LET data == response.data
        IN  /\ Len(data) <= (IF response.limit < 0 THEN 0 ELSE response.limit)
            /\ \A i \in 1..Len(data) : \E k \in 1..Len(movieStore) : data[i] = movieStore[k]
            /\ \A i, j \in 1..Len(data) : i < j =>
                  /\ data[i].id # data[j].id
                  /\ ~ScoreOf(data[i].id).nan
                  /\ ~ScoreOf(data[j].id).nan
                  /\ ScoreOf(data[i].id).v >= ScoreOf(data[j].id).v
                  /\ ScoreOf(data[i].id).v = ScoreOf(data[j].id).v
                        => data[i].id < data[j].id

\* C10: for a user whose preferredGenres are absent or empty every movie's
\* genre sub-score is 0.5, and for a user whose preferredDirectors are absent
\* or empty every movie's director sub-score is 0.5.
C10_NeutralWithoutHistory ==
    response.kind = "feed" =>
        \A k \in 1..Len(response.scored) :
            /\ (\/ IsUndefined(userHistory, "preferredGenres")
                \/ Len(userHistory.preferredGenres) = 0)
                  => response.scored[k].genreWeight = Half
            /\ (\/ IsUndefined(userHistory, "preferredDirectors")
                \/ Len(userHistory.preferredDirectors) = 0)
                  => response.scored[k].directorWeight = Half

\* a feed was computed for a user with empty preferredGenres and absent
\* preferredDirectors over a collection holding a movie without genres and
\* a movie with two
C10_Witness ==
    /\ response.kind = "feed"
    /\ userHistory.absent = {"preferredDirectors"}
    /\ userHistory.preferredGenres = <<>>
    /\ Len(response.scored) = 2
    /\ movieStore[1].genre = <<>>
    /\ Len(movieStore[2].genre) = 2
    /\ response.scored[1].genreWeight = Half
    /\ response.scored[2].directorWeight = Half

(***************************************************************************)
(* Properties of the store handlers                                        *)
(***************************************************************************)

\* C11: updates of the user's preference snapshot have set semantics: after
\* any sequence of getMovieById and trackInteraction requests of the user,
\* preferredGenres and preferredDirectors hold no value twice, viewedMovies
\* holds at most one entry per movieId, and no update removes or moves an
\* entry that was there.
C11_SetSemantics ==
    [][ /\ \A i, j \in 1..Len(userHistory'.preferredGenres) :
              userHistory'.preferredGenres[i] = userHistory'.preferredGenres[j]
                  => i = j
        /\ \A i, j \in 1..Len(userHistory'.preferredDirectors) :
              userHistory'.preferredDirectors[i] = userHistory'.preferredDirectors[j]
                  => i = j
        /\ \A i, j \in 1..Len(userHistory'.viewedMovies) :
              userHistory'.viewedMovies[i].movieId = userHistory'.viewedMovies[j].movieId
                  => i = j
        /\ \A f \in {"preferredGenres", "preferredDirectors", "viewedMovies"} :
              /\ Len(userHistory'[f]) >= Len(userHistory[f])
              /\ \A i \in 1..Len(userHistory[f]) : userHistory'[f][i] = userHistory[f][i]
      ]_vars

\* C12: every UserInteraction document references a movie that is in the
\* collection at the moment the document is created, however trackInteraction
\* and getMovieById requests interleave with deleteMovie requests; and a
\* request naming a movie that is not in the collection is answered 404
\* without creating a document or changing the user's preference snapshot.
C12_InteractionReferencesMovie ==
    [][ /\ \A e \in 1..Len(interactionLog') : interactionLog'[e].movieExists
        /\ \A k \in DOMAIN requests :
              (/\ requests[k].pc = "findById"
               /\ requests'[k].pc # "findById"
               /\ FindById(movieStore, requests[k].id) = <<>>)
                  => /\ requests'[k].status = 404
                     /\ requests'[k].pc = "done"
                     /\ UNCHANGED <<interactionLog, interactionStore, userHistory>>
      ]_vars

\* C13: a request with a validation error (getSortedMovies with a sort field
\* outside title, rating, releaseDate, duration; trackInteraction with an
\* interaction type outside view, like, share, click; searchMovies without a
\* query) is answered 400 as it arrives: its handler has run no store
\* operation, and the movie, user and interaction stores are as they were.
C13_RejectedBeforeStoreAccess ==
    [][ \A k \in DOMAIN requests' :
          LET r == requests'[k]
          IN  (\/ /\ r.handler = "getSortedMovies"
                  /\ r.arg \notin {"title", "rating", "releaseDate", "duration"}
               \/ /\ r.handler = "trackInteraction"
                  /\ r.arg \notin {"view", "like", "share", "click"}
               \/ /\ r.handler = "searchMovies"
                  /\ r.arg = "")
                  => /\ r.status = 400
                     /\ r.pc = "done"
                     /\ r.accesses = 0
                     /\ k \notin DOMAIN requests
                           => UNCHANGED <<movieStore, userHistory,
                                          interactionStore, interactionLog>>
      ]_vars

\* an interaction of type "search" was rejected after another request had
\* written to the user's snapshot
C13_Witness ==
    /\ Len(requests) = 2
    /\ requests[1].accesses > 0
    /\ userHistory.preferredDirectors # <<>>
    /\ requests[2].handler = "trackInteraction"
    /\ requests[2].arg = "search"
    /\ requests[2].status = 400

\* C14: the processing flag is true whenever work of a pass is outstanding
\* (an insert operation in flight, a pass waiting for its batch or for the
\* inter-batch delay), so it was set before that work was scheduled; and in
\* the step that clears it the pass has nothing left to arrange: no insert
\* operation is in flight, no pass is waiting, and no item is pending for
\* which a reschedule timer would still have to be armed.
C14_FlagBracketsPass ==
    [][ /\ (inflight' # {} \/ \E p \in Passes : pc'[p] # "none") => processing'
        /\ (processing /\ ~processing') =>
              /\ inflight' = {}
              /\ \A p \in Passes : pc'[p] = "none"
              /\ queue' = <<>>
              /\ timers' = timers
      ]_vars

\* a pass has ended after its last batch, in which an item was given up
C14_Witness ==
    /\ lastOp = "batchSettled"
    /\ ~processing
    /\ dropped # {}
    /\ \E i \in Items : invoked[i] = maxRetries + 1

\* C15: a batch is the first min(batchSize, queue length) items of the queue,
\* in queue order, and the rest stays in the queue in its order, so a batch
\* never holds more than 10 items; an item that fails with retries remaining
\* is appended behind every item pending at that moment, which therefore are
\* all taken into a batch no later than the retried item.
C15_FifoBatches ==
    [][ /\ \A p \in Passes :
              (pc[p] # "join" /\ pc'[p] = "join") =>
                  LET pending == [k \in 1..Len(queue) |-> queue[k].id]
                      before  == IF lastOp' = "enqueue"
                                 THEN Append(pending, nextId) ELSE pending
                      n       == IF batchSize < Len(before)
                                 THEN batchSize ELSE Len(before)
                  IN  /\ batch'[p] = {before[k] : k \in 1..n}
                      /\ Cardinality(batch'[p]) = n
                      /\ n <= 10
                      /\ [k \in 1..Len(queue') |-> queue'[k].id]
                             = SubSeq(before, n + 1, Len(before))
        /\ (lastOp' = "failed" /\ queue' # queue) =>
              /\ Len(queue') = Len(queue) + 1
              /\ SubSeq(queue', 1, Len(queue)) = queue
              /\ queue'[Len(queue')].retries > 0
              /\ queue'[Len(queue')].id \in InflightIds
      ]_vars

\* a batch of ten items was taken off the queue ahead of the retried item 1,
\* which had failed while they were pending
C15_Witness ==
    /\ \E p \in Passes : pc[p] = "join" /\ Cardinality(batch[p]) = 10
    /\ Len(queue) = 1
    /\ queue[1].id = 1
    /\ queue[1].retries = 1

(***************************************************************************)
(* Properties of the router                                                *)
(***************************************************************************)

\* C16: a GET request for /feed is dispatched to protect followed by
\* getMovieFeed, which both run when the request carries the token of a user,
\* and not to the /:id route's getMovieById; GET /trending, /sorted and
\* /search are dispatched to getTrending, getSortedMovies and searchMovies.
C16_FeedReachesItsHandler ==
    routed.method = "GET" =>
        /\ routed.path = <<"feed">> =>
              /\ routed.chain = <<"protect", "getMovieFeed">>
              /\ routed.credential \in {"user", "admin"} => routed.ran = routed.chain
        /\ routed.path = <<"trending">> => routed.chain = <<"getTrending">>
        /\ routed.path = <<"sorted">> => routed.chain = <<"getSortedMovies">>
        /\ routed.path = <<"search">> => routed.chain = <<"optionalAuth", "searchMovies">>

=============================================================================
